---------------------------- MODULE Spec2Model ----------------------------
(***************************************************************************)
(* A model of the particle simulator of sim_3.js: the Simulator object,    *)
(* its update() pipeline (emit, drain, integration, prediction, hash grid, *)
(* double density relaxation, boundary resolution, velocity                *)
(* reconciliation) and the operations called between frames.               *)
(*                                                                         *)
(* Numbers.  A JavaScript number is modelled as a fixed-point value: <<n>> *)
(* stands for n / Scale, and <<>> for NaN.  Three units are used:          *)
(*   F    n / Scale            positions, velocities, densities, pressures *)
(*   FSq  n / (Scale * Scale)  sums of squares (rSq, distSq), kept exact   *)
(*   FInv n / InvScale         reciprocals (1 / kernelRadius, 1 / dt, ...) *)
(* Rounding is towards minus infinity instead of IEEE round-to-nearest.    *)
(* Arithmetic propagates NaN and every comparison with NaN is false, as in *)
(* JavaScript.  Infinity is not represented: the only division by zero the *)
(* code can perform is 0 / 0 (see Div), and TLC stops if another is met.   *)
(* Arrays are functions on 0 .. n-1, so indices are those of the source.   *)
(***************************************************************************)
EXTENDS Integers, Sequences, FiniteSets, TLC

----------------------------------------------------------------------------
(* Bounds of the model. *)

\* update() is called at most MaxUpdates times in a behaviour.
MaxUpdates == 2
\* The constructor's numParticles is at most MaxInitParticles.
MaxInitParticles == 2
\* numHashBuckets ranges over 1 .. MaxHashBuckets.
MaxHashBuckets == 2
\* The constructor's width and height, in pixels.
Width == 300
Height == 100

----------------------------------------------------------------------------
(* Fixed-point numbers with NaN. *)

Scale == 10 * 10
InvScale == Scale * Scale

NaN == <<>>
Num(n) == <<n>>
IsNaN(a) == a = NaN
Val(a) == a[1]

\* a / b on integers b # 0, rounded towards minus infinity.
FloorDiv(a, b) == IF b > 0 THEN a \div b ELSE (0 - a) \div (0 - b)

Add(a, b) == IF IsNaN(a) \/ IsNaN(b) THEN NaN ELSE Num(Val(a) + Val(b))
Sub(a, b) == IF IsNaN(a) \/ IsNaN(b) THEN NaN ELSE Num(Val(a) - Val(b))
Neg(a) == IF IsNaN(a) THEN NaN ELSE Num(0 - Val(a))
\* F * F -> F
Mul(a, b) == IF IsNaN(a) \/ IsNaN(b) THEN NaN ELSE Num((Val(a) * Val(b)) \div Scale)
\* F * FInv -> F
MulInv(a, b) == IF IsNaN(a) \/ IsNaN(b) THEN NaN ELSE Num((Val(a) * Val(b)) \div InvScale)
\* dx * dx + dy * dy : F, F -> FSq
SqSum(dx, dy) == IF IsNaN(dx) \/ IsNaN(dy) THEN NaN ELSE Num(Val(dx) * Val(dx) + Val(dy) * Val(dy))
\* 1 / a : F -> FInv.  Every call site has a # 0 (a constant, or guarded by distSq > 0.1).
Recip(a) == IF IsNaN(a) THEN NaN ELSE Num(FloorDiv(Scale * InvScale, Val(a)))
\* a / b : F, F -> F.  0 / 0 is NaN; x / 0 with x # 0 would be an infinity, which
\* the model does not represent (the CHOOSE has no value and stops TLC).
Div(a, b) ==
  IF IsNaN(a) \/ IsNaN(b) THEN NaN
  ELSE IF Val(b) = 0
       THEN (IF Val(a) = 0 THEN NaN ELSE CHOOSE infinity \in {} : TRUE)
       ELSE Num(FloorDiv(Val(a) * Scale, Val(b)))

Lt(a, b) == ~IsNaN(a) /\ ~IsNaN(b) /\ Val(a) < Val(b)
Gt(a, b) == ~IsNaN(a) /\ ~IsNaN(b) /\ Val(a) > Val(b)
\* JavaScript's == on numbers: NaN equals nothing, itself included.
NumEq(a, b) == ~IsNaN(a) /\ ~IsNaN(b) /\ Val(a) = Val(b)

\* Math.sqrt : FSq -> F, the integer square root found bit by bit.
RECURSIVE SqrtBits(_, _, _)
SqrtBits(n, r, bit) ==
  IF bit = 0 THEN r
  ELSE LET c == r + bit
       IN  IF c <= 46340 /\ c * c <= n
           THEN SqrtBits(n, c, bit \div 2)
           ELSE SqrtBits(n, r, bit \div 2)
Sqrt(a) == IF IsNaN(a) THEN NaN ELSE Num(SqrtBits(Val(a), 0, 32768))

\* Math.floor : F -> an integer-valued number, here the integer itself in <<_>>.
Floor(a) == IF IsNaN(a) THEN NaN ELSE Num(Val(a) \div Scale)

----------------------------------------------------------------------------
(* 32-bit integer operations of getHashBucketIdx, on 16-bit halves so that  *)
(* no intermediate value leaves TLC's integers.                            *)

Half == 256 * 256

RECURSIVE XorBits(_, _, _)
XorBits(a, b, n) ==
  IF n = 0 THEN 0
  ELSE (IF a % 2 = b % 2 THEN 0 ELSE 1) + 2 * XorBits(a \div 2, b \div 2, n - 1)

\* ToInt32(k * c) as <<hi, lo>> (two's complement), for an integer-valued k
\* (<<n>> or NaN, which ToInt32 maps to 0) and a constant c = chi * 2^16 + clo.
MulToInt32(k, chi, clo) ==
  IF IsNaN(k) THEN <<0, 0>>
  ELSE LET low == Val(k) * clo
       IN  <<(Val(k) * chi + (low \div Half)) % Half, low % Half>>

\* Math.abs(h) % n for the 32-bit value h = <<hi, lo>>.
AbsMod(h, n) ==
  IF h[1] < 32768
  THEN (h[1] * Half + h[2]) % n
  ELSE (((Half - h[1]) * (Half % n)) - h[2]) % n

\* 92837111 = 1416 * 2^16 + 38135 and 689287499 = 10517 * 2^16 + 45387.
getHashBucketIdx(bucketX, bucketY, numBuckets) ==
  LET hx == MulToInt32(bucketX, 1416, 38135)
      hy == MulToInt32(bucketY, 10517, 45387)
      h  == <<XorBits(hx[1], hy[1], 16), XorBits(hx[2], hy[2], 16)>>
  IN  AbsMod(h, numBuckets)

----------------------------------------------------------------------------
(* Arrays: functions on 0 .. n-1. *)

EmptyArray == <<>>
Length(a) == Cardinality(DOMAIN a)
Push(a, x) == [i \in 0 .. Length(a) |-> IF i < Length(a) THEN a[i] ELSE x]
Truncate(a, n) == [i \in 0 .. n - 1 |-> a[i]]
\* a[i] = x, which in JavaScript extends the array when i is its length.
Store(a, i, x) == [j \in (DOMAIN a) \cup {i} |-> IF j = i THEN x ELSE a[j]]

----------------------------------------------------------------------------
(* Material("water", .5, 0.5, 0.5, 40) and the constants of the methods. *)

restDensity == Num(Scale \div 2)
stiffnessParam == Num(Scale \div 2)
nearStiffnessParam == Num(Scale \div 2)
kernelRadius == Num(40 * Scale)
materialGravX == Num(0)
materialGravY == Num(Scale \div 2)
dt == Num(Scale)

emitRate == 10
maxScreenMove == 50
boundaryMargin == 5
drainRadiusSq == 10000
dragRadiusSq == 10000
attractRadiusSq == 100000

\* new Particle(posX, posY, velX, velY)
Particle(posX, posY, velX, velY) ==
  [posX |-> posX, posY |-> posY, prevX |-> posX, prevY |-> posY,
   velX |-> velX, velY |-> velY]

----------------------------------------------------------------------------
(* Inputs of the model. *)

\* Math.random(): a call draws from one of a few streams; Random(stream, k) is
\* the k-th draw of the call, in [0, 1).  Stream 0 always draws 0, stream 1
\* draws a cluster around the middle, stream 2 starts just below 1.
Streams == {0, 1, 2}
EmitStreams == {1}
Random(stream, k) ==
  CASE stream = 0 -> Num(0)
    [] stream = 1 -> Num((47 + k) % Scale)
    [] stream = 2 -> Num((99 + 98 * k) % Scale)

\* What the page's event handlers leave in the simulator and the window
\* between two frames: the interaction flags, the pointer and the window's
\* position on the screen.
Interaction(a, r, g, e, d, mx, my, wx, wy) ==
  [attract |-> a, repel |-> r, drag |-> g, emit |-> e, drain |-> d,
   mouseX |-> mx, mouseY |-> my, windowX |-> wx, windowY |-> wy]
CentreX == (Width * Scale) \div 2
CentreY == (Height * Scale) \div 2
InteractionChoices ==
  { Interaction(TRUE, FALSE, FALSE, FALSE, FALSE, CentreX, CentreY, 0, 0),
    Interaction(FALSE, TRUE, FALSE, FALSE, FALSE, CentreX, CentreY, 0, 0),
    Interaction(FALSE, FALSE, TRUE, FALSE, FALSE, CentreX - 500, CentreY + 500, 0, 0),
    Interaction(FALSE, FALSE, FALSE, TRUE, FALSE, CentreX, CentreY, 0, 0),
    Interaction(FALSE, FALSE, FALSE, FALSE, TRUE, CentreX, CentreY, 0, 0),
    Interaction(FALSE, FALSE, FALSE, FALSE, FALSE, CentreX, CentreY, 3000, 0 - 8000) }

\* addParticles(count) on the array ps, from index i of the loop on.
RECURSIVE AddLoop(_, _, _, _, _, _)
AddLoop(ps, i, count, stream, w, h) ==
  IF i >= count THEN ps
  ELSE LET posX == Mul(Random(stream, 4 * i), Num(w))
           posY == Mul(Random(stream, 4 * i + 1), Num(h))
           velX == Sub(Mul(Random(stream, 4 * i + 2), Num(2 * Scale)), Num(Scale))
           velY == Sub(Mul(Random(stream, 4 * i + 3), Num(2 * Scale)), Num(Scale))
       IN  AddLoop(Push(ps, Particle(posX, posY, velX, velY)), i + 1, count, stream, w, h)
addParticles(ps, count, stream, w, h) == AddLoop(ps, 0, count, stream, w, h)

\* The values material.maxPressure is configured with.
MaxPressureChoices == {Num(Scale \div 2), Num(Scale)}

----------------------------------------------------------------------------
(* State. *)

VARIABLES
  running, width, height, particles,
  windowX, windowY, screenX, screenY, screenMoveSmootherX, screenMoveSmootherY,
  mouseX, mouseY, mousePrevX, mousePrevY, attract, repel, emit, drain, drag,
  numHashBuckets, numActiveBuckets, activeBuckets, particleListHeads,
  particleListNextIdx, maxPressure,
  \* update(): where the call stands, and its locals
  pc, updates, screenMoveX, screenMoveY, dragX, dragY,
  \* doubleDensityRelaxation(): its loop variables and neighbour cache
  abIdx, selfIdx, p0Idx, neighbors, visitedBuckets, pressure, nearPressure

configVars == <<width, height, numHashBuckets, maxPressure>>
flagVars == <<attract, repel, emit, drain, drag>>
pointerVars == <<mouseX, mouseY, windowX, windowY>>
trackVars == <<screenX, screenY, screenMoveSmootherX, screenMoveSmootherY,
               mousePrevX, mousePrevY>>
gridVars == <<numActiveBuckets, activeBuckets, particleListHeads, particleListNextIdx>>
frameVars == <<screenMoveX, screenMoveY, dragX, dragY>>
relaxVars == <<abIdx, selfIdx, p0Idx, neighbors, visitedBuckets, pressure, nearPressure>>
vars == <<running, particles, configVars, flagVars, pointerVars, trackVars,
          gridVars, frameVars, relaxVars, pc, updates>>

\* new Simulator(width, height, numParticles), with window.screenX = screenY = 0.
Init ==
  /\ running = FALSE
  /\ width = Width * Scale
  /\ height = Height * Scale
  /\ \E n \in 0 .. MaxInitParticles, stream \in Streams :
       particles = addParticles(EmptyArray, n, stream, width, height)
  /\ windowX = 0 /\ windowY = 0
  /\ screenX = 0 /\ screenY = 0
  /\ screenMoveSmootherX = 0 /\ screenMoveSmootherY = 0
  /\ mouseX = CentreX /\ mouseY = CentreY
  /\ mousePrevX = CentreX /\ mousePrevY = CentreY
  /\ attract = FALSE /\ repel = FALSE /\ emit = FALSE /\ drain = FALSE /\ drag = FALSE
  /\ numHashBuckets \in 1 .. MaxHashBuckets
  /\ numActiveBuckets = 0
  /\ activeBuckets = [i \in 0 .. numHashBuckets - 1 |-> 0]
  /\ particleListHeads = [i \in 0 .. numHashBuckets - 1 |-> 0 - 1]
  /\ particleListNextIdx = EmptyArray
  /\ maxPressure \in MaxPressureChoices
  /\ pc = "idle" /\ updates = 0
  /\ screenMoveX = 0 /\ screenMoveY = 0 /\ dragX = 0 /\ dragY = 0
  /\ abIdx = 0 /\ selfIdx = 0 - 1 /\ p0Idx = 0 - 1
  /\ neighbors = <<>> /\ visitedBuckets = <<>>
  /\ pressure = Num(0) /\ nearPressure = Num(0)

----------------------------------------------------------------------------
(* Operations called between frames. *)

Start ==
  /\ pc = "idle"
  /\ updates < MaxUpdates
  /\ running' = TRUE
  /\ UNCHANGED <<particles, configVars, flagVars, pointerVars, trackVars,
                 gridVars, frameVars, relaxVars, pc, updates>>

Pause ==
  /\ pc = "idle"
  /\ updates < MaxUpdates
  /\ running' = FALSE
  /\ UNCHANGED <<particles, configVars, flagVars, pointerVars, trackVars,
                 gridVars, frameVars, relaxVars, pc, updates>>

\* addParticles(1)
AddParticles ==
  /\ pc = "idle"
  /\ updates < MaxUpdates
  /\ Length(particles) < MaxInitParticles
  /\ \E stream \in Streams : particles' = addParticles(particles, 1, stream, width, height)
  /\ UNCHANGED <<running, configVars, flagVars, pointerVars, trackVars,
                 gridVars, frameVars, relaxVars, pc, updates>>

Interact ==
  /\ pc = "idle"
  /\ updates < MaxUpdates
  /\ \E in \in InteractionChoices :
       /\ attract' = in.attract /\ repel' = in.repel /\ drag' = in.drag
       /\ emit' = in.emit /\ drain' = in.drain
       /\ mouseX' = in.mouseX /\ mouseY' = in.mouseY
       /\ windowX' = in.windowX /\ windowY' = in.windowY
  /\ UNCHANGED <<running, particles, configVars, trackVars, gridVars,
                 frameVars, relaxVars, pc, updates>>

----------------------------------------------------------------------------
(* update(): lines 163-190. *)

Clamp(x, lo, hi) == IF x > hi THEN hi ELSE IF x < lo THEN lo ELSE x

\* A variant of ReturnsEarly: the running check is missing.
ReturnsEarlyNever(run) == FALSE

\* if (!this.running) return;
ReturnsEarly(run) == ~run

\* A variant of NextStage: the prediction loop is skipped.
NextStageNoPredict(stage) ==
  CASE stage = "entered"    -> "emitted"
    [] stage = "emitted"    -> "drained"
    [] stage = "drained"    -> "integrated"
    [] stage = "integrated" -> "predicted"
    [] stage = "predicted"  -> "hashed"
    [] stage = "hashed"     -> "adjusted"
    [] stage = "adjusted"   -> "displaced"
    [] stage = "displaced"  -> "relaxing"
    [] stage = "relaxing"   -> "relaxed"
    [] stage = "relaxed"    -> "resolved"
    [] stage = "resolved"   -> "idle"

\* The stages of a running update(), in the order of its statements.
NextStage(stage) ==
  CASE stage = "entered"    -> "emitted"
    [] stage = "emitted"    -> "drained"
    [] stage = "drained"    -> "integrated"
    [] stage = "integrated" -> "viscosity"
    [] stage = "viscosity"  -> "predicted"
    [] stage = "predicted"  -> "hashed"
    [] stage = "hashed"     -> "adjusted"
    [] stage = "adjusted"   -> "displaced"
    [] stage = "displaced"  -> "relaxing"
    [] stage = "relaxing"   -> "relaxed"
    [] stage = "relaxed"    -> "resolved"
    [] stage = "resolved"   -> "idle"

\* The screen and pointer bookkeeping, then the running check.
UpdateEnter ==
  /\ pc = "idle"
  /\ updates < MaxUpdates
  /\ updates' = updates + 1
  /\ LET smX == screenMoveSmootherX + (windowX - screenX)
         smY == screenMoveSmootherY + (windowY - screenY)
         moveX == Clamp(smX, 0 - maxScreenMove * Scale, maxScreenMove * Scale)
         moveY == Clamp(smY, 0 - maxScreenMove * Scale, maxScreenMove * Scale)
     IN  /\ screenX' = windowX
         /\ screenY' = windowY
         /\ screenMoveX' = moveX
         /\ screenMoveY' = moveY
         /\ screenMoveSmootherX' = smX - moveX
         /\ screenMoveSmootherY' = smY - moveY
  /\ dragX' = mouseX - mousePrevX
  /\ dragY' = mouseY - mousePrevY
  /\ mousePrevX' = mouseX
  /\ mousePrevY' = mouseY
  /\ pc' = IF ReturnsEarly(running) THEN "idle" ELSE "entered"
  /\ UNCHANGED <<running, particles, configVars, flagVars, pointerVars,
                 gridVars, relaxVars>>

\* emitParticles(), its Math.random() draws taken from the stream of `seed`.
RECURSIVE EmitLoop(_, _, _, _, _)
EmitLoop(ps, i, seed, mx, my) ==
  IF i >= emitRate THEN ps
  ELSE LET posX == Sub(Add(Num(mx), Mul(Random(seed, 4 * i), Num(10 * Scale))), Num(5 * Scale))
           posY == Sub(Add(Num(my), Mul(Random(seed, 4 * i + 1), Num(10 * Scale))), Num(5 * Scale))
           velX == Sub(Mul(Random(seed, 4 * i + 2), Num(2 * Scale)), Num(Scale))
           velY == Sub(Mul(Random(seed, 4 * i + 3), Num(2 * Scale)), Num(Scale))
       IN  EmitLoop(Push(ps, Particle(posX, posY, velX, velY)), i + 1, seed, mx, my)
emitParticles(ps, seed, mx, my) == EmitLoop(ps, 0, seed, mx, my)

\* distSq < 10000 of drainParticles
NearPointer(p, mx, my) ==
  Lt(SqSum(Sub(p.posX, Num(mx)), Sub(p.posY, Num(my))),
     Num(drainRadiusSq * Scale * Scale))

\* moveParticleData(dst, src): dst takes the six fields of src.
moveParticleData(dst, src) ==
  [dst EXCEPT !.posX = src.posX, !.posY = src.posY,
              !.prevX = src.prevX, !.prevY = src.prevY,
              !.velX = src.velX, !.velY = src.velY]

\* The loop of drainParticles() from index i with numParticles = num, then
\* this.particles.length = numParticles.
RECURSIVE DrainLoop(_, _, _, _, _)
DrainLoop(ps, i, num, mx, my) ==
  IF i >= num THEN Truncate(ps, num)
  ELSE IF NearPointer(ps[i], mx, my)
       THEN DrainLoop([ps EXCEPT ![i] = moveParticleData(ps[i], ps[num - 1])],
                      i + 1, num - 1, mx, my)
       ELSE DrainLoop(ps, i + 1, num, mx, my)
drainParticles(ps, mx, my) == DrainLoop(ps, 0, Length(ps), mx, my)

\* if (this.emit) this.emitParticles();
EmitStage ==
  /\ pc = "entered"
  /\ \E seed \in EmitStreams :
       particles' = IF emit THEN emitParticles(particles, seed, mouseX, mouseY)
                    ELSE particles
  /\ pc' = NextStage(pc)
  /\ UNCHANGED <<running, configVars, flagVars, pointerVars, trackVars,
                 gridVars, frameVars, relaxVars, updates>>

\* if (this.drain) this.drainParticles();
DrainStage ==
  /\ pc = "emitted"
  /\ particles' = IF drain THEN drainParticles(particles, mouseX, mouseY)
                  ELSE particles
  /\ pc' = NextStage(pc)
  /\ UNCHANGED <<running, configVars, flagVars, pointerVars, trackVars,
                 gridVars, frameVars, relaxVars, updates>>

----------------------------------------------------------------------------
(* update(): lines 192-270, the velocity loop and the prediction loop. *)

\* The body of the first loop over the particles, for one particle.
IntegrateParticle(p, doAttract, doRepel, doDrag, mx, my, dgX, dgY, moveX, moveY) ==
  LET gravX == Mul(Mul(Mul(Num(2), kernelRadius), materialGravX), dt)
      gravY == Mul(Mul(Mul(Num(2), kernelRadius), materialGravY), dt)
      attractRepel ==
        Sub(IF doAttract THEN Mul(Num(1), kernelRadius) ELSE Num(0),
            IF doRepel THEN Mul(Num(1), kernelRadius) ELSE Num(0))
      arNonZero == attractRepel # Num(0)
      dx == Sub(p.posX, Num(mx))
      dy == Sub(p.posY, Num(my))
      distSq == SqSum(dx, dy)
      invDist == Recip(Sqrt(distSq))
      v1X == Add(p.velX, gravX)
      v1Y == Add(p.velY, gravY)
      pulled == /\ arNonZero
                /\ Lt(distSq, Num(attractRadiusSq * Scale * Scale))
                /\ Gt(distSq, Num((Scale * Scale) \div 10))
      v2X == IF pulled THEN Sub(v1X, Mul(attractRepel, MulInv(dx, invDist))) ELSE v1X
      v2Y == IF pulled THEN Sub(v1Y, Mul(attractRepel, MulInv(dy, invDist))) ELSE v1Y
      dragged == /\ doDrag
                 /\ Lt(distSq, Num(dragRadiusSq * Scale * Scale))
                 /\ Gt(distSq, Num((Scale * Scale) \div 10))
  IN  [p EXCEPT !.velX = IF dragged THEN Num(dgX) ELSE v2X,
                !.velY = IF dragged THEN Num(dgY) ELSE v2Y,
                !.posX = Sub(p.posX, Num(moveX)),
                !.posY = Sub(p.posY, Num(moveY))]

IntegrateStage ==
  /\ pc = "drained"
  /\ particles' = [i \in DOMAIN particles |->
                     IntegrateParticle(particles[i], attract, repel, drag,
                                       mouseX, mouseY, dragX, dragY,
                                       screenMoveX, screenMoveY)]
  /\ pc' = NextStage(pc)
  /\ UNCHANGED <<running, configVars, flagVars, pointerVars, trackVars,
                 gridVars, frameVars, relaxVars, updates>>

\* applyViscosity(dt) { }
applyViscosity(ps) == ps

ViscosityStage ==
  /\ pc = "integrated"
  /\ particles' = applyViscosity(particles)
  /\ pc' = NextStage(pc)
  /\ UNCHANGED <<running, configVars, flagVars, pointerVars, trackVars,
                 gridVars, frameVars, relaxVars, updates>>

\* The body of the second loop: save the previous position, advance.
PredictParticle(p) ==
  [p EXCEPT !.prevX = p.posX, !.prevY = p.posY,
            !.posX = Add(p.posX, Mul(p.velX, dt)),
            !.posY = Add(p.posY, Mul(p.velY, dt))]

PredictStage ==
  /\ pc = "viscosity"
  /\ particles' = [i \in DOMAIN particles |-> PredictParticle(particles[i])]
  /\ pc' = NextStage(pc)
  /\ UNCHANGED <<running, configVars, flagVars, pointerVars, trackVars,
                 gridVars, frameVars, relaxVars, updates>>

----------------------------------------------------------------------------
(* populateHashGrid(), on a grid
     [heads, next, active, numActive]
   holding particleListHeads, particleListNextIdx, activeBuckets and
   numActiveBuckets. *)

\* The bucket of the cell that holds position (x, y).
BucketOf(x, y, numBuckets) ==
  LET bucketSizeInv == Recip(kernelRadius)
  IN  getHashBucketIdx(Floor(MulInv(x, bucketSizeInv)),
                       Floor(MulInv(y, bucketSizeInv)), numBuckets)

\* for (i < numActiveBuckets) particleListHeads[activeBuckets[i]] = -1
RECURSIVE ClearActive(_, _, _, _)
ClearActive(heads, active, numActive, i) ==
  IF i >= numActive THEN heads
  ELSE ClearActive([heads EXCEPT ![active[i]] = 0 - 1], active, numActive, i + 1)

\* for (i < numHashBuckets) particleListHeads[i] = -1; numActiveBuckets = 0
ClearGrid(g, numBuckets) ==
  LET cleared == ClearActive(g.heads, g.active, g.numActive, 0)
  IN  [g EXCEPT !.heads = [b \in (DOMAIN cleared) \cup (0 .. numBuckets - 1) |->
                               IF b < numBuckets THEN 0 - 1 ELSE cleared[b]],
                !.numActive = 0]

\* A variant of InsertParticle: the particle is not linked to the old head.
InsertParticleUnlinked(g, i, x, y, numBuckets) ==
  LET bucketIdx == BucketOf(x, y, numBuckets)
      headIdx == g.heads[bucketIdx]
  IN  [heads |-> [g.heads EXCEPT ![bucketIdx] = i],
       next |-> Store(g.next, i, 0 - 1),
       active |-> IF headIdx = 0 - 1
                  THEN [g.active EXCEPT ![g.numActive] = bucketIdx]
                  ELSE g.active,
       numActive |-> IF headIdx = 0 - 1 THEN g.numActive + 1 ELSE g.numActive]

\* The body of the insertion loop for particle i at (x, y).
InsertParticle(g, i, x, y, numBuckets) ==
  LET bucketIdx == BucketOf(x, y, numBuckets)
      headIdx == g.heads[bucketIdx]
  IN  [heads |-> [g.heads EXCEPT ![bucketIdx] = i],
       next |-> Store(g.next, i, headIdx),
       active |-> IF headIdx = 0 - 1
                  THEN [g.active EXCEPT ![g.numActive] = bucketIdx]
                  ELSE g.active,
       numActive |-> IF headIdx = 0 - 1 THEN g.numActive + 1 ELSE g.numActive]

RECURSIVE InsertLoop(_, _, _, _)
InsertLoop(g, ps, i, numBuckets) ==
  IF i >= Length(ps) THEN g
  ELSE InsertLoop(InsertParticle(g, i, ps[i].posX, ps[i].posY, numBuckets),
                  ps, i + 1, numBuckets)

populateHashGrid(g, ps, numBuckets) ==
  InsertLoop(ClearGrid(g, numBuckets), ps, 0, numBuckets)

PopulateStage ==
  /\ pc = "predicted"
  /\ \E g \in {populateHashGrid([heads |-> particleListHeads,
                                   next |-> particleListNextIdx,
                                   active |-> activeBuckets,
                                   numActive |-> numActiveBuckets],
                                  particles, numHashBuckets)} :
         /\ particleListHeads' = g.heads
         /\ particleListNextIdx' = g.next
         /\ activeBuckets' = g.active
         /\ numActiveBuckets' = g.numActive
  /\ pc' = NextStage(pc)
  /\ UNCHANGED <<running, particles, configVars, flagVars, pointerVars,
                 trackVars, frameVars, relaxVars, updates>>

\* adjustSprings(dt) { }
adjustSprings(ps) == ps
\* applySpringDisplacements(dt) { }
applySpringDisplacements(ps) == ps

AdjustStage ==
  /\ pc = "hashed"
  /\ particles' = adjustSprings(particles)
  /\ pc' = NextStage(pc)
  /\ UNCHANGED <<running, configVars, flagVars, pointerVars, trackVars,
                 gridVars, frameVars, relaxVars, updates>>

DisplaceStage ==
  /\ pc = "adjusted"
  /\ particles' = applySpringDisplacements(particles)
  /\ pc' = NextStage(pc)
  /\ UNCHANGED <<running, configVars, flagVars, pointerVars, trackVars,
                 gridVars, frameVars, relaxVars, updates>>

----------------------------------------------------------------------------
(* doubleDensityRelaxation(dt).  One step of the model is one pass of the
   while loop: the relaxation of particle selfIdx. *)

\* The 3 x 3 block of cells in the order of the two for loops.
Cells == << <<0 - 1, 0 - 1>>, <<0 - 1, 0>>, <<0 - 1, 1>>,
            <<0, 0 - 1>>, <<0, 0>>, <<0, 1>>,
            <<1, 0 - 1>>, <<1, 0>>, <<1, 1>> >>

InSeq(x, seq) == \E k \in 1 .. Len(seq) : seq[k] = x

\* The first particle to relax from active bucket ab on: <<abIdx, selfIdx>>,
\* with selfIdx = -1 when the for loop over the active buckets has ended.
RECURSIVE Seek(_, _, _, _)
Seek(ab, heads, active, numActive) ==
  IF ab >= numActive THEN <<ab, 0 - 1>>
  ELSE IF heads[active[ab]] # 0 - 1 THEN <<ab, heads[active[ab]]>>
       ELSE Seek(ab + 1, heads, active, numActive)

\* The inner while loop: the list of one bucket from neighborIdx on.  acc holds
\* density, nearDensity and the neighbour cache (the first numNeighbors entries
\* of neighbors, neighborUnitX, neighborUnitY and neighborCloseness).
RECURSIVE ScanBucket(_, _, _, _, _)
ScanBucket(acc, ps, next, self, neighborIdx) ==
  IF neighborIdx = 0 - 1 THEN acc
  ELSE IF neighborIdx = self THEN ScanBucket(acc, ps, next, self, next[neighborIdx])
  ELSE
    LET p0 == ps[self]
        p1 == ps[neighborIdx]
        diffX == Sub(p1.posX, p0.posX)
        diffY == Sub(p1.posY, p0.posY)
        rSq == SqSum(diffX, diffY)
        r == Sqrt(rSq)
        q == MulInv(r, Recip(kernelRadius))
        closeness == Sub(Num(Scale), q)
        closenessSq == Mul(closeness, closeness)
    IN  IF Gt(diffX, kernelRadius) \/ Lt(diffX, Neg(kernelRadius))
        THEN ScanBucket(acc, ps, next, self, next[neighborIdx])
        ELSE IF Gt(diffY, kernelRadius) \/ Lt(diffY, Neg(kernelRadius))
        THEN ScanBucket(acc, ps, next, self, next[neighborIdx])
        ELSE IF Lt(rSq, SqSum(kernelRadius, Num(0)))
        THEN ScanBucket(
               [acc EXCEPT
                  !.density = Add(@, Mul(closeness, closeness)),
                  !.nearDensity = Add(@, Mul(closeness, closenessSq)),
                  !.neighbors = Append(@,
                     [idx |-> neighborIdx, unitX |-> Div(diffX, r),
                      unitY |-> Div(diffY, r), closeness |-> closeness])],
               ps, next, self, next[neighborIdx])
        ELSE ScanBucket(acc, ps, next, self, next[neighborIdx])

\* A variant of Unvisited: the hash-collision check is missing.
UnvisitedAlways(bucketIdx, visited) == TRUE

\* The hash-collision check: whether the bucket of a cell is scanned.
Unvisited(bucketIdx, visited) == ~InSeq(bucketIdx, visited)

\* The two for loops over the block of cells, from cell number c on.
RECURSIVE ScanCells(_, _, _, _, _, _, _)
ScanCells(acc, c, ps, heads, next, self, numBuckets) ==
  IF c > Len(Cells) THEN acc
  ELSE
    LET p0 == ps[self]
        bucketX == Floor(MulInv(p0.posX, Recip(kernelRadius)))
        bucketY == Floor(MulInv(p0.posY, Recip(kernelRadius)))
        bucketIdx == getHashBucketIdx(Floor(Add(bucketX, Num(Cells[c][1] * Scale))),
                                      Floor(Add(bucketY, Num(Cells[c][2] * Scale))),
                                      numBuckets)
    IN  IF Unvisited(bucketIdx, acc.visited)
        THEN ScanCells(
               ScanBucket([acc EXCEPT !.visited = Append(@, bucketIdx)],
                          ps, next, self, heads[bucketIdx]),
               c + 1, ps, heads, next, self, numBuckets)
        ELSE ScanCells(acc, c + 1, ps, heads, next, self, numBuckets)

\* if (pressure > 1) pressure = 1, and the same for nearPressure.
ClampPressure(x, configured) == IF Gt(x, Num(Scale)) THEN Num(Scale) ELSE x

\* The loop over the cached neighbours from entry j on: acc holds the
\* particles and the displacement dispX, dispY collected for p0.
RECURSIVE DisplaceLoop(_, _, _, _, _)
DisplaceLoop(acc, nbrs, j, press, nearPress) ==
  IF j > Len(nbrs) THEN acc
  ELSE
    LET n == nbrs[j]
        D == Div(Add(Mul(press, n.closeness),
                     Mul(Mul(nearPress, n.closeness), n.closeness)),
                 Num(2 * Scale))
        DX == Mul(D, n.unitX)
        DY == Mul(D, n.unitY)
    IN  DisplaceLoop(
          [ps |-> [acc.ps EXCEPT ![n.idx].posX = Add(@, DX),
                                 ![n.idx].posY = Add(@, DY)],
           dispX |-> Sub(acc.dispX, DX),
           dispY |-> Sub(acc.dispY, DY)],
          nbrs, j + 1, press, nearPress)

\* The second half of a pass of the while loop for particle self, given the
\* result scan of its first half: the pressures, then the displacements.
ApplyPressure(ps, scan, self, configured) ==
  LET stiffness == Mul(Mul(stiffnessParam, dt), dt)
      nearStiffness == Mul(Mul(nearStiffnessParam, dt), dt)
      press == ClampPressure(Mul(stiffness, Sub(scan.density, restDensity)), configured)
      nearPress == ClampPressure(Mul(nearStiffness, scan.nearDensity), configured)
      moved == CHOOSE m \in {DisplaceLoop([ps |-> ps, dispX |-> Num(0), dispY |-> Num(0)],
                                          scan.neighbors, 1, press, nearPress)} : TRUE
  IN  [ps |-> [moved.ps EXCEPT ![self].posX = Add(@, moved.dispX),
                               ![self].posY = Add(@, moved.dispY)],
       neighbors |-> scan.neighbors, visited |-> scan.visited,
       pressure |-> press, nearPressure |-> nearPress]

\* One pass of the while loop for particle self: the particles after it, and
\* the values its locals ended with.
RelaxParticle(ps, heads, next, self, numBuckets, configured) ==
  ApplyPressure(ps,
                CHOOSE scan \in {ScanCells([visited |-> <<>>, neighbors |-> <<>>,
                                            density |-> Num(0), nearDensity |-> Num(0)],
                                           1, ps, heads, next, self, numBuckets)} : TRUE,
                self, configured)

\* The call, up to the first particle of the first active bucket.
RelaxEnter ==
  /\ pc = "displaced"
  /\ LET first == Seek(0, particleListHeads, activeBuckets, numActiveBuckets)
     IN  abIdx' = first[1] /\ selfIdx' = first[2]
  /\ pc' = NextStage(pc)
  /\ UNCHANGED <<running, particles, configVars, flagVars, pointerVars,
                 trackVars, gridVars, frameVars, updates,
                 p0Idx, neighbors, visitedBuckets, pressure, nearPressure>>

RelaxOne ==
  /\ pc = "relaxing"
  /\ selfIdx # 0 - 1
  /\ \E out \in {RelaxParticle(particles, particleListHeads, particleListNextIdx,
                              selfIdx, numHashBuckets, maxPressure)} :
     LET following == particleListNextIdx[selfIdx]
         cursor == IF following # 0 - 1 THEN <<abIdx, following>>
                   ELSE Seek(abIdx + 1, particleListHeads, activeBuckets,
                             numActiveBuckets)
     IN  /\ particles' = out.ps
         /\ neighbors' = [k \in 1 .. Len(out.neighbors) |-> out.neighbors[k].idx]
         /\ visitedBuckets' = out.visited
         /\ pressure' = out.pressure
         /\ nearPressure' = out.nearPressure
         /\ p0Idx' = selfIdx
         /\ abIdx' = cursor[1]
         /\ selfIdx' = cursor[2]
  /\ UNCHANGED <<running, configVars, flagVars, pointerVars, trackVars,
                 gridVars, frameVars, pc, updates>>

\* The return, on which the locals are gone.
RelaxExit ==
  /\ pc = "relaxing"
  /\ selfIdx = 0 - 1
  /\ abIdx' = 0 /\ p0Idx' = 0 - 1
  /\ neighbors' = <<>> /\ visitedBuckets' = <<>>
  /\ pressure' = Num(0) /\ nearPressure' = Num(0)
  /\ pc' = NextStage(pc)
  /\ UNCHANGED <<running, particles, configVars, flagVars, pointerVars,
                 trackVars, gridVars, frameVars, updates, selfIdx>>

----------------------------------------------------------------------------
(* resolveCollisions(dt) and the last loop of update(). *)

\* A variant of ResolveAxis: boundaryMul is 1.
ResolveAxisSnap(x, extent) ==
  LET boundaryMin == Num(boundaryMargin * Scale)
      boundaryMax == Num(extent - boundaryMargin * Scale)
  IN  IF Lt(x, boundaryMin) THEN Add(x, Sub(boundaryMin, x))
      ELSE IF Gt(x, boundaryMax) THEN Add(x, Sub(boundaryMax, x))
      ELSE x

\* One coordinate against [boundaryMin, boundaryMax].
ResolveAxis(x, extent) ==
  LET boundaryMul == Mul(Mul(Num(Scale \div 2), dt), dt)
      boundaryMin == Num(boundaryMargin * Scale)
      boundaryMax == Num(extent - boundaryMargin * Scale)
  IN  IF Lt(x, boundaryMin) THEN Add(x, Mul(boundaryMul, Sub(boundaryMin, x)))
      ELSE IF Gt(x, boundaryMax) THEN Add(x, Mul(boundaryMul, Sub(boundaryMax, x)))
      ELSE x

resolveCollisions(ps, w, h) ==
  [i \in DOMAIN ps |-> [ps[i] EXCEPT !.posX = ResolveAxis(@, w),
                                     !.posY = ResolveAxis(@, h)]]

ResolveStage ==
  /\ pc = "relaxed"
  /\ particles' = resolveCollisions(particles, width, height)
  /\ pc' = NextStage(pc)
  /\ UNCHANGED <<running, configVars, flagVars, pointerVars, trackVars,
                 gridVars, frameVars, relaxVars, updates>>

\* A variant of ReconcileParticle: the difference is taken the wrong way round.
ReconcileParticleReversed(p) ==
  LET dtInv == Recip(dt)
  IN  [p EXCEPT !.velX = MulInv(Sub(p.prevX, p.posX), dtInv),
                !.velY = MulInv(Sub(p.prevY, p.posY), dtInv)]

\* p.velX = (p.posX - p.prevX) * dtInv, and the same for velY.
ReconcileParticle(p) ==
  LET dtInv == Recip(dt)
  IN  [p EXCEPT !.velX = MulInv(Sub(p.posX, p.prevX), dtInv),
                !.velY = MulInv(Sub(p.posY, p.prevY), dtInv)]

ReconcileStage ==
  /\ pc = "resolved"
  /\ particles' = [i \in DOMAIN particles |-> ReconcileParticle(particles[i])]
  /\ pc' = NextStage(pc)
  /\ UNCHANGED <<running, configVars, flagVars, pointerVars, trackVars,
                 gridVars, frameVars, relaxVars, updates>>

----------------------------------------------------------------------------

Next ==
  \/ Start \/ Pause \/ AddParticles \/ Interact
  \/ UpdateEnter \/ EmitStage \/ DrainStage \/ IntegrateStage \/ ViscosityStage
  \/ PredictStage \/ PopulateStage \/ AdjustStage \/ DisplaceStage
  \/ RelaxEnter \/ RelaxOne \/ RelaxExit \/ ResolveStage \/ ReconcileStage

Spec == Init /\ [][Next]_vars

(* Properties. *)

N == Length(particles)
Indices == DOMAIN particles
Buckets == 0 .. numHashBuckets - 1

\* The stages of update() in which the grid built by populateHashGrid() is in use.
GridStages == {"hashed", "adjusted", "displaced", "relaxing", "relaxed", "resolved"}

\* The list of a bucket: the indices met from idx on, following
\* particleListNextIdx for at most fuel links, and whether the walk ended
\* at -1 (it does not on a cycle, nor on an index without a next entry).
RECURSIVE Walk(_, _)
Walk(idx, fuel) ==
  IF idx = 0 - 1 THEN [list |-> <<>>, ended |-> TRUE]
  ELSE IF fuel = 0 \/ idx \notin DOMAIN particleListNextIdx
       THEN [list |-> <<>>, ended |-> FALSE]
       ELSE LET rest == Walk(particleListNextIdx[idx], fuel - 1)
            IN  [list |-> <<idx>> \o rest.list, ended |-> rest.ended]
BucketList(b) == Walk(particleListHeads[b], N)

\* Where index i occurs in the bucket lists.
Occurrences(lists, i) ==
  {bk \in Buckets \X (1 .. N) :
     bk[2] <= Len(lists[bk[1]].list) /\ lists[bk[1]].list[bk[2]] = i}

Distinct(seq) == \A j, k \in 1 .. Len(seq) : j # k => seq[j] # seq[k]

\* C1: after populateHashGrid(), every bucket list ends at -1 without a cycle,
\* every particle index 0 .. N-1 is on exactly one list exactly once (and no
\* other index is on any), and the first numActiveBuckets entries of
\* activeBuckets are distinct and are exactly the buckets with a head.
C1_GridInvariant ==
  pc \in GridStages =>
    \E lists \in {[b \in Buckets |-> BucketList(b)]} :
      /\ \A b \in Buckets : lists[b].ended
      /\ \A b \in Buckets : \A k \in 1 .. Len(lists[b].list) :
           lists[b].list[k] \in Indices
      /\ \A i \in Indices : Cardinality(Occurrences(lists, i)) = 1
      /\ numActiveBuckets <= numHashBuckets
      /\ \A j, k \in 0 .. numActiveBuckets - 1 :
           j # k => activeBuckets[j] # activeBuckets[k]
      /\ {activeBuckets[k] : k \in 0 .. numActiveBuckets - 1}
           = {b \in Buckets : particleListHeads[b] # 0 - 1}

\* A rebuild over the grid that an earlier one left for more particles, with
\* two active buckets of which one lists several particles.
C1_Witness ==
  /\ pc = "hashed"
  /\ Length(particleListNextIdx) > N
  /\ numActiveBuckets = 2
  /\ \E b \in Buckets : Len(BucketList(b).list) >= 2

\* The velocity of p is (position - previousPosition) / dt, as the same value.
VelocityIs(p) ==
  /\ p.velX = Div(Sub(p.posX, p.prevX), dt)
  /\ p.velY = Div(Sub(p.posY, p.prevY), dt)
\* The same with JavaScript's ==, which no NaN satisfies.
VelocityEquals(p) ==
  /\ NumEq(p.velX, Div(Sub(p.posX, p.prevX), dt))
  /\ NumEq(p.velY, Div(Sub(p.posY, p.prevY), dt))

\* A call of update() returns: at once when paused, or after its last loop.
UpdateReturnsPaused == pc = "idle" /\ updates' = updates + 1 /\ pc' = "idle"
UpdateReturnsRun == pc = "resolved" /\ pc' = "idle"

\* C2 as stated: after any call of update(), paused or not, every particle has
\* velocity == (position - previousPosition) / dt on both axes.
C2_VelocityAfterAnyUpdate ==
  [][(UpdateReturnsPaused \/ UpdateReturnsRun) =>
       \A i \in DOMAIN particles' : VelocityEquals(particles'[i])]_vars

\* C2 amended: after any call of update() made while running, every particle's
\* velocity is the value of (position - previousPosition) / dt on both axes
\* (NaN where a coordinate is NaN).
C2_VelocityAfterRunningUpdate ==
  [][UpdateReturnsRun =>
       \A i \in DOMAIN particles' : VelocityIs(particles'[i])]_vars

\* A running update() has returned and left a particle with a velocity.
C2_Witness ==
  /\ pc = "idle"
  /\ Length(particleListNextIdx) > 0
  /\ \E i \in Indices :
       /\ VelocityEquals(particles[i])
       /\ particles[i].velX # Num(0)
       /\ particles[i].posY # particles[i].prevY

\* C3 as stated: update() called while paused changes nothing of the
\* simulator: particles, grid, flags, configuration, and the rest of its fields.
C3_PausedUpdateChangesNothing ==
  [][(pc = "idle" /\ ~running /\ updates' = updates + 1) =>
       /\ pc' = "idle"
       /\ UNCHANGED <<particles, gridVars, flagVars, configVars, running,
                      pointerVars, trackVars>>]_vars

\* C3 amended: update() called while paused returns at once and leaves the
\* particles, the grid, the flags, the pointer and the configuration as they
\* were (the screen and pointer bookkeeping is still brought up to date).
C3_PausedUpdateKeepsParticles ==
  [][(pc = "idle" /\ ~running /\ updates' = updates + 1) =>
       /\ pc' = "idle"
       /\ UNCHANGED <<particles, gridVars, flagVars, configVars, running,
                      pointerVars>>]_vars

\* update() was called while paused, with a flag set and the window moved, on
\* particles that no step has touched.
C3_Witness ==
  /\ pc = "idle" /\ ~running /\ updates >= 1
  /\ screenX # 0
  /\ N > 0
  /\ particleListNextIdx = EmptyArray
  /\ \A i \in Indices : particles[i].prevX = particles[i].posX

\* C4: the pressure and the near-pressure that a pass of the relaxation used
\* for its displacements are at most material.maxPressure.
C4_PressureWithinConfiguredClamp ==
  (pc = "relaxing" /\ p0Idx # 0 - 1) =>
    /\ ~Gt(pressure, maxPressure)
    /\ ~Gt(nearPressure, maxPressure)

\* C5: no position is ever undefined (NaN): a pair of particles at distance 0
\* yields no displacement from a division by r = 0.
C5_PositionsDefined ==
  \A i \in Indices : ~IsNaN(particles[i].posX) /\ ~IsNaN(particles[i].posY)

BoundaryMin == Num(boundaryMargin * Scale)
BoundaryMax(extent) == Num(extent - boundaryMargin * Scale)

\* A coordinate x below boundaryMin becomes boundaryMin, one above boundaryMax
\* becomes boundaryMax, one inside is unchanged.
Snapped(x, after, extent) ==
  IF Lt(x, BoundaryMin) THEN after = BoundaryMin
  ELSE IF Gt(x, BoundaryMax(extent)) THEN after = BoundaryMax(extent)
  ELSE after = x

\* A coordinate x outside ends halfway to the boundary it passed, one inside
\* is unchanged.
Halfway(x, after, extent) ==
  IF Lt(x, BoundaryMin)
  THEN after = Num(Val(x) + (Val(BoundaryMin) - Val(x)) \div 2)
  ELSE IF Gt(x, BoundaryMax(extent))
       THEN after = Num(Val(x) + (Val(BoundaryMax(extent)) - Val(x)) \div 2)
       ELSE after = x

ResolveRuns == pc = "relaxed" /\ pc' = "resolved"

C7_NoStaleGridEntries ==
  pc \in GridStages =>
    /\ Length(particleListNextIdx) = N
    /\ \A b \in DOMAIN particleListHeads : particleListHeads[b] < N
    /\ \A i \in DOMAIN particleListNextIdx : particleListNextIdx[i] < N

\* The stage pairs of the claimed order: the velocity loop (with the
\* viscosity hook), the prediction, the grid rebuild, the two spring hooks, the
\* relaxation, the boundary resolution, the velocity reconciliation.
ClaimedOrder ==
  { <<"idle", "entered">>, <<"entered", "emitted">>, <<"emitted", "drained">>,
    <<"drained", "integrated">>, <<"integrated", "viscosity">>,
    <<"viscosity", "predicted">>, <<"predicted", "hashed">>,
    <<"hashed", "adjusted">>, <<"adjusted", "displaced">>,
    <<"displaced", "relaxing">>, <<"relaxing", "relaxed">>,
    <<"relaxed", "resolved">>, <<"resolved", "idle">> }

\* The position of p is the one predicted from its saved previous position.
Predicted(p) ==
  /\ p.posX = Add(p.prevX, Mul(p.velX, dt))
  /\ p.posY = Add(p.prevY, Mul(p.velY, dt))

\* Particle i is on the list of the bucket of its present position.
OnOwnList(i) ==
  \E k \in 1 .. N :
    LET own == BucketList(BucketOf(particles[i].posX, particles[i].posY,
                                   numHashBuckets)).list
    IN  k <= Len(own) /\ own[k] = i

\* The previous positions and the number of particles stay as they are.
PreviousKept ==
  /\ DOMAIN particles' = DOMAIN particles
  /\ \A i \in Indices : /\ particles'[i].prevX = particles[i].prevX
                        /\ particles'[i].prevY = particles[i].prevY

\* The grid stays as it is.
GridKept == UNCHANGED gridVars

\* C8: the stages of a running update() follow the claimed order, one after
\* the other; when the prediction is done every position is the predicted one
\* and stays so until the relaxation starts; the grid is rebuilt from the
\* predicted positions (every particle is on the list of the bucket of its
\* predicted position) and is not touched again in the call; the previous
\* positions are assigned by the prediction only: no later stage of the call
\* changes them, while the relaxation and the boundary resolution change
\* positions; the velocity loop and the hooks leave the previous positions alone.
C8_StageOrder ==
  /\ [](pc \in {"predicted", "hashed", "adjusted", "displaced"} =>
          \A i \in Indices : Predicted(particles[i]))
  /\ [](pc = "hashed" => \A i \in Indices : OnOwnList(i))
  /\ [][/\ pc' # pc => <<pc, pc'>> \in ClaimedOrder
        /\ pc \in {"drained", "integrated", "predicted"} \cup GridStages
             => PreviousKept
        /\ pc \in GridStages => GridKept]_vars

\* The last stage but one of a running update(), with a position that the
\* relaxation or the boundary resolution moved away from the predicted one.
C8_Witness ==
  /\ pc = "resolved"
  /\ \E i \in Indices : ~Predicted(particles[i]) /\ ~IsNaN(particles[i].posX)

\* C9: in a pass of the relaxation for particle p0Idx, no particle is cached as
\* a neighbour twice, p0Idx is not its own neighbour, at most 9 buckets are
\* visited and none twice.
C9_NeighboursOnce ==
  (pc = "relaxing" /\ p0Idx # 0 - 1) =>
    /\ Distinct(neighbors)
    /\ ~InSeq(p0Idx, neighbors)
    /\ Len(visitedBuckets) <= 9
    /\ Distinct(visitedBuckets)

\* A pass that found several neighbours while cells of the block shared a bucket.
C9_Witness ==
  /\ pc = "relaxing" /\ p0Idx # 0 - 1
  /\ Len(neighbors) >= 2
  /\ Len(visitedBuckets) < 9
  /\ numHashBuckets > 1

\* How often the particle data v occurs in the array ps.
Count(ps, v) == Cardinality({i \in DOMAIN ps : ps[i] = v})

\* C10: drainParticles() leaves no particle within the drain radius of the
\* pointer, keeps every other particle exactly once with its data, and leaves
\* a dense array of the survivors.
C10_DrainRemovesExactlyNear ==
  [][(pc = "emitted" /\ drain /\ pc' = "drained") =>
       /\ \A j \in DOMAIN particles' : ~NearPointer(particles'[j], mouseX, mouseY)
       /\ \A i \in Indices :
            ~NearPointer(particles[i], mouseX, mouseY) =>
               Count(particles', particles[i]) = Count(particles, particles[i])
       /\ DOMAIN particles' =
            0 .. Cardinality({i \in Indices :
                                ~NearPointer(particles[i], mouseX, mouseY)}) - 1]_vars

=============================================================================
